---- MODULE Spec2Model ----
(***************************************************************************)
(* Model of app.py, the Streamlit movie recommender.                       *)
(*                                                                         *)
(* The script is re-executed top to bottom on every user interaction; the  *)
(* only state that survives a run is st.session_state (history, mode,      *)
(* selected_movie, random_movie) and the two pickled artefacts on disk     *)
(* (movies, similarity), which every run loads again unchanged.            *)
(*                                                                         *)
(* Four specifications:                                                    *)
(*   Spec         recommend called on an aligned catalog and matrix        *)
(*   SpecLoad     recommend called on whatever pair the load accepts       *)
(*   SpecHistory  update_history called with arbitrary ids                 *)
(*   SpecSession  script runs of one session (buttons, sidebar, rerun)     *)
(*                                                                         *)
(* Conventions: catalog rows and list positions are 1-based here and       *)
(* 0-based in Python; PySlice translates the slice bounds.  None is the    *)
(* empty tuple.  A Python exception is a value of the field "raised".      *)
(***************************************************************************)
EXTENDS Integers, Sequences, FiniteSets, TLC

VARIABLES
    movies,          \* the catalog: sequence of [movie_id, title]   (line 200)
    similarity,      \* the matrix: similarity[i][j], square         (line 201)
    tmdb,            \* behaviour of the metadata API during the current call
    pc,              \* "idle" | "returned" | "rendered"
    arg,             \* the title passed to the last recommend call
    ret,             \* what the last recommend call produced
    history,         \* st.session_state.history
    mode,            \* st.session_state.mode
    selected_movie,  \* st.session_state.selected_movie
    random_movie,    \* st.session_state.random_movie
    inputs,          \* every id passed to update_history so far, oldest first
    page             \* what the last script run rendered

vars == <<movies, similarity, tmdb, pc, arg, ret, history, mode,
          selected_movie, random_movie, inputs, page>>

(***************************************************************************)
(* Bounds of the model.                                                    *)
(***************************************************************************)
MaxN == 7        \* largest catalog
MaxFeat == 1     \* similarity scores range over 0..MaxFeat
MaxExtra == 1    \* largest |matrix dimension - catalog size| of a bad load
MaxIds == 6      \* distinct ids fed to update_history
MaxCalls == 6    \* update_history calls in one run of the history model
MaxSessN == 3    \* largest catalog of the session model

(***************************************************************************)
(* Program constants.                                                      *)
(***************************************************************************)
retries == 5                        \* requests_retry_session(retries=5)
status_forcelist == {500, 502, 504}
SliceFrom == 1                      \* distances[1:6]
SliceTo == 6
HistoryCap == 5                     \* len(history) > 5

None == <<>>
NoRaise == "no exception"

Min(a, b) == IF a <= b THEN a ELSE b
MinOf(S) == CHOOSE x \in S : \A y \in S : x <= y
Abs(x) == IF x < 0 THEN -x ELSE x

\* Mutant of PySlice: the stop index taken one too low.
PySliceShort(s, lo, hi) == SubSeq(s, lo + 1, Min(hi - 1, Len(s)))

\* Python's s[lo:hi] for 0 <= lo <= hi on a 1-based sequence.
PySlice(s, lo, hi) == SubSeq(s, lo + 1, Min(hi, Len(s)))

(***************************************************************************)
(* The artefacts a load can produce.                                       *)
(***************************************************************************)
TitleNames == <<"A", "B", "C", "D", "E", "F", "G", "H", "I", "J">>
AbsentTitle == "not in catalog"
IdOf(i) == 100 + i

\* Title patterns: all titles distinct, or one row repeating the title of the
\* row before it (titles are not unique in the catalog): the first two rows
\* or the last two.
DupPairs(n) ==
    {p \in {<<1, 2>>, <<n - 1, n>>} : 1 <= p[1] /\ p[1] < p[2]}

TitlePatterns(n) ==
    {[i \in 1..n |-> i]} \cup
    {[i \in 1..n |-> IF i = d[2] THEN d[1] ELSE i] : d \in DupPairs(n)}

Catalogs(n) ==
    {[i \in 1..n |-> [movie_id |-> IdOf(i), title |-> TitleNames[t[i]]]] :
        t \in TitlePatterns(n)}

\* Symmetric matrices whose diagonal is the maximal score, as cosine
\* similarity of per-movie features gives them; equal features tie with the
\* diagonal.
Matrices(d) ==
    {[i \in 1..d |-> [j \in 1..d |-> MaxFeat - Abs(f[i] - f[j])]] :
        f \in [1..d -> 0..MaxFeat]}

Dim(m) == Len(m)

(***************************************************************************)
(* The metadata API and the retrying HTTP session (lines 36-53).           *)
(*   up       200 with poster_path and a YouTube trailer                   *)
(*   empty    200 with neither                                             *)
(*   down500  500 on every attempt                                         *)
(*   flaky    500 on the first `retries` attempts, then as up              *)
(*   neterr   every attempt fails to connect                               *)
(*   gone404  404 (not in status_forcelist, so it is not retried)          *)
(*   mixed    down500 for odd movie ids, up for even ones                  *)
(***************************************************************************)
TmdbModes == {"up", "empty", "down500", "flaky", "neterr", "gone404", "mixed"}
AllFailModes == {"down500", "neterr"}

ModeFor(api, movie_id) ==
    IF api = "mixed" THEN (IF movie_id % 2 = 1 THEN "down500" ELSE "up") ELSE api

\* What the server answers to the attempt-th request (1-based) for movie_id.
ApiAttempt(api, movie_id, attempt) ==
    LET m == ModeFor(api, movie_id) IN
    CASE m = "neterr"  -> [connected |-> FALSE, status |-> 0]
      [] m = "down500" -> [connected |-> TRUE, status |-> 500]
      [] m = "flaky"   -> [connected |-> TRUE,
                           status |-> IF attempt <= retries THEN 500 ELSE 200]
      [] m = "gone404" -> [connected |-> TRUE, status |-> 404]
      [] OTHER         -> [connected |-> TRUE, status |-> 200]

HasData(api, movie_id) == ModeFor(api, movie_id) \in {"up", "flaky"}

\* Session.get through HTTPAdapter(max_retries=Retry(total=left, ...)): a
\* connection error or a status of status_forcelist consumes one retry; with
\* none left the adapter raises (ConnectionError / RetryError).
RECURSIVE SessionGet(_, _, _, _)
SessionGet(api, movie_id, attempt, left) ==
    LET r == ApiAttempt(api, movie_id, attempt) IN
    IF ~r.connected \/ r.status \in status_forcelist
    THEN IF left = 0
         THEN [raised |-> TRUE, status_code |-> 0]
         ELSE SessionGet(api, movie_id, attempt + 1, left - 1)
    ELSE [raised |-> FALSE, status_code |-> r.status]

\* requests_retry_session().get(url) for every API behaviour and every movie
\* the catalogs hold, worked out once.
MovieIds == {IdOf(i) : i \in 1..(IF MaxN >= MaxSessN THEN MaxN ELSE MaxSessN)}

Responses ==
    [api \in TmdbModes |->
        [movie_id \in MovieIds |-> SessionGet(api, movie_id, 1, retries)]]

requests_retry_session_get(api, movie_id) == Responses[api][movie_id]

\* Mutant of fetch_poster: no try/except around the request.
fetch_poster_unguarded(movie_id, api) ==
    LET response == requests_retry_session_get(api, movie_id) IN
    IF response.raised
    THEN [raised |-> TRUE, value |-> None]
    ELSE IF response.status_code = 200 /\ HasData(api, movie_id)
         THEN [raised |-> FALSE,
               value |-> <<"https://image.tmdb.org/t/p/w500", movie_id>>]
         ELSE [raised |-> FALSE, value |-> None]

\* An enrichment call returns [raised, value]; the bare except turns every
\* exception into the fall-through "return None".
fetch_poster(movie_id, api) ==
    LET response == requests_retry_session_get(api, movie_id) IN
    IF response.raised
    THEN [raised |-> FALSE, value |-> None]
    ELSE IF response.status_code = 200 /\ HasData(api, movie_id)
         THEN [raised |-> FALSE,
               value |-> <<"https://image.tmdb.org/t/p/w500", movie_id>>]
         ELSE [raised |-> FALSE, value |-> None]

fetch_trailer(movie_id, api) ==
    LET response == requests_retry_session_get(api, movie_id) IN
    IF response.raised
    THEN [raised |-> FALSE, value |-> None]
    ELSE IF response.status_code = 200 /\ HasData(api, movie_id)
         THEN [raised |-> FALSE, value |-> <<"https://youtu.be/", movie_id>>]
         ELSE [raised |-> FALSE, value |-> None]

(***************************************************************************)
(* recommend (lines 140-155).                                              *)
(***************************************************************************)
\* list(enumerate(row)): pairs <<row index, score>>.
enumerate(row) == [j \in 1..Len(row) |-> <<j, row[j]>>]

\* Mutant of InsertDesc: equal keys end up in reverse of their original
\* order, as sorted(...)[::-1] would leave them.
InsertDescUnstable(s, x) ==
    LET before == {k \in 1..Len(s) : s[k][2] > x[2]}
        n == Cardinality(before)
    IN SubSeq(s, 1, n) \o <<x>> \o SubSeq(s, n + 1, Len(s))

\* sorted(..., reverse=True, key=lambda x: x[1]): descending by score; the
\* sort is stable and reverse=True keeps the original order of equal keys.
InsertDesc(s, x) ==
    LET before == {k \in 1..Len(s) : s[k][2] >= x[2]}
        n == Cardinality(before)
    IN SubSeq(s, 1, n) \o <<x>> \o SubSeq(s, n + 1, Len(s))

RECURSIVE SortPrefix(_, _)
SortPrefix(s, n) ==
    IF n = 0 THEN <<>> ELSE InsertDesc(SortPrefix(s, n - 1), s[n])

\* Mutant of sorted_reverse: reverse=True left out (ascending, stable).
InsertAsc(s, x) ==
    LET before == {k \in 1..Len(s) : s[k][2] <= x[2]}
        n == Cardinality(before)
    IN SubSeq(s, 1, n) \o <<x>> \o SubSeq(s, n + 1, Len(s))

RECURSIVE SortPrefixAsc(_, _)
SortPrefixAsc(s, n) ==
    IF n = 0 THEN <<>> ELSE InsertAsc(SortPrefixAsc(s, n - 1), s[n])

sorted_ascending(s) == SortPrefixAsc(s, Len(s))

sorted_reverse(s) == SortPrefix(s, Len(s))

\* movies[movies["title"] == movie]: the matching rows, in catalog order.
Matching(movie) == {i \in 1..Len(movies) : movies[i].title = movie}

\* Mutant of First: the last matching row.
Last(rows) == CHOOSE x \in rows : \A y \in rows : x >= y

\* .index[0] / .iloc[0]: the first of them.
First(rows) == MinOf(rows)

Raise(what) ==
    [raised |-> what, index |-> 0, distances |-> <<>>, recommendations |-> <<>>]

\* Lines 149-153: the dict appended for row i unless an enrichment call
\* raised.
Enriched(title, poster, trailer) ==
    IF poster.raised \/ trailer.raised
    THEN [raised |-> "exception in an enrichment call", rec |-> None]
    ELSE [raised |-> NoRaise,
          rec |-> [title |-> title, poster |-> poster.value,
                   trailer |-> trailer.value]]

\* Lines 146-153: the loop body for row i of the catalog (movies.iloc[i]).
Body(i, api) ==
    IF i > Len(movies)
    THEN [raised |-> "IndexError at line 146", rec |-> None]
    ELSE Enriched(movies[i].title,
                  fetch_poster(movies[i].movie_id, api),
                  fetch_trailer(movies[i].movie_id, api))

\* The for loop over distances[1:6] (line 145): recommendations grows by one
\* dict per ranked pair; an exception in the body leaves the function.
RECURSIVE Loop(_, _, _, _)
Step(top, k, recommendations, api, body) ==
    IF body.raised # NoRaise
    THEN [raised |-> body.raised, recommendations |-> <<>>]
    ELSE Loop(top, k + 1, Append(recommendations, body.rec), api)

Loop(top, k, recommendations, api) ==
    IF k > Len(top)
    THEN [raised |-> NoRaise, recommendations |-> recommendations]
    ELSE Step(top, k, recommendations, api, Body(top[k][1], api))

\* Lines 143-155, once the row is ranked.
Ranked(index, distances, api) ==
    [index |-> index, distances |-> distances,
     out |-> Loop(PySlice(distances, SliceFrom, SliceTo), 1, <<>>, api)]

Return(r) ==
    IF r.out.raised # NoRaise
    THEN Raise(r.out.raised)
    ELSE [raised |-> NoRaise, index |-> r.index, distances |-> r.distances,
          recommendations |-> r.out.recommendations]

\* Lines 141-142, for the row index.
Rank(index, api) ==
    IF index > Dim(similarity)
    THEN Raise("IndexError at line 142")
    ELSE Return(Ranked(index, sorted_reverse(enumerate(similarity[index])), api))

Lookup(rows, api) ==
    IF rows = {} THEN Raise("IndexError at line 141") ELSE Rank(First(rows), api)

recommend(movie, api) == Lookup(Matching(movie), api)

(***************************************************************************)
(* Session state (lines 19-26, 168-172).                                   *)
(***************************************************************************)
NoMode == "None"
NoTitle == "None"
NoMovie == [title |-> NoTitle, poster |-> None, trailer |-> None, movie_id |-> 0]

\* Mutant of update_history: the comparison with the last entry left out.
update_history_always(h, movie_id) ==
    LET appended == Append(h, movie_id) IN
    IF Len(appended) > HistoryCap THEN Tail(appended) ELSE appended

update_history(h, movie_id) ==
    IF h = <<>> \/ h[Len(h)] # movie_id
    THEN LET appended == Append(h, movie_id) IN
         IF Len(appended) > HistoryCap THEN Tail(appended) ELSE appended
    ELSE h

\* get_random_movie (lines 158-165) when movies.sample(1) draws row.
get_random_movie(row, api) ==
    [title |-> movies[row].title,
     poster |-> fetch_poster(movies[row].movie_id, api).value,
     trailer |-> fetch_trailer(movies[row].movie_id, api).value,
     movie_id |-> movies[row].movie_id]

(***************************************************************************)
(* Loading (lines 200-201) and the states before the first interaction.    *)
(***************************************************************************)
NoPage == [shown |-> 0, ranked |-> 0, raised |-> NoRaise, sidebar |-> <<>>]

SessionInit ==
    /\ history = <<>>
    /\ mode = NoMode
    /\ selected_movie = NoTitle
    /\ random_movie = NoMovie
    /\ inputs = <<>>
    /\ page = NoPage

CallInit ==
    /\ pc = "idle"
    /\ tmdb = "up"
    /\ arg = NoTitle
    /\ ret = Raise("not called")

\* The artefacts as the data model describes them: matrix dimension equal to
\* the catalog size.
LoadAligned(maxn) ==
    \E n \in 1..maxn :
        /\ movies \in Catalogs(n)
        /\ similarity \in Matrices(n)

\* What the two pickle.load calls accept: any catalog with any square matrix.
LoadAny(maxn) ==
    \E n \in 1..maxn :
        \E d \in {e \in (n - MaxExtra)..(n + MaxExtra) : e >= 1} :
            /\ movies \in Catalogs(n)
            /\ similarity \in Matrices(d)

Init == LoadAligned(MaxN) /\ CallInit /\ SessionInit

QueryTitles == {movies[i].title : i \in 1..Len(movies)} \cup {AbsentTitle}

\* One call recommend(movie) while the metadata API behaves as api.
Recommend ==
    /\ pc = "idle"
    /\ \E movie \in QueryTitles, api \in TmdbModes :
        /\ arg' = movie
        /\ tmdb' = api
        /\ ret' = recommend(movie, api)
    /\ pc' = "returned"
    /\ UNCHANGED <<movies, similarity, history, mode, selected_movie,
                   random_movie, inputs, page>>

Next == Recommend

Spec == Init /\ [][Next]_vars

\* recommend on whatever the load produced.
InitLoad == LoadAny(MaxN) /\ CallInit /\ SessionInit

SpecLoad == InitLoad /\ [][Next]_vars

(***************************************************************************)
(* update_history called with arbitrary ids, from the empty history.       *)
(***************************************************************************)
InitHistory == LoadAligned(1) /\ CallInit /\ SessionInit

UpdateHistory ==
    /\ Len(inputs) < MaxCalls
    /\ \E movie_id \in 1..MaxIds :
        /\ inputs' = Append(inputs, movie_id)
        /\ history' = update_history(history, movie_id)
    /\ UNCHANGED <<movies, similarity, tmdb, pc, arg, ret, mode,
                   selected_movie, random_movie, page>>

NextHistory == UpdateHistory

SpecHistory == InitHistory /\ [][NextHistory]_vars

(***************************************************************************)
(* One run of the script (lines 232-347), started by one interaction.      *)
(*   ev.kind = "show"    "Show Details & Recommendations" pressed with     *)
(*                       ev.title in the selectbox                         *)
(*             "random"  "Random Movie" pressed, movies.sample draws       *)
(*                       ev.row                                            *)
(*             "hist"    the sidebar button with key hist_<ev.key> pressed *)
(*             "none"    a rerun with no button pressed                    *)
(* ss is st.session_state.                                                 *)
(***************************************************************************)
Event(kind, title, row, key) ==
    [kind |-> kind, title |-> title, row |-> row, key |-> key]

\* Lines 238-248: the two buttons.
Buttons(ss, ev, api) ==
    CASE ev.kind = "show" ->
            [ss EXCEPT !.mode = "search", !.selected_movie = ev.title]
      [] ev.kind = "random" ->
            [ss EXCEPT !.mode = "surprise",
                       !.random_movie = get_random_movie(ev.row, api)]
      [] OTHER -> ss

\* Lines 256-264: the movie the detail panel shows.
Shown(ss) ==
    IF ss.mode = "search"
    THEN [movie_title |-> ss.selected_movie,
          movie_id |-> movies[First(Matching(ss.selected_movie))].movie_id]
    ELSE [movie_title |-> ss.random_movie.title,
          movie_id |-> ss.random_movie.movie_id]

\* movies[movies["movie_id"] == hist_id].iloc[0]
RowOfId(hist_id) == First({i \in 1..Len(movies) : movies[i].movie_id = hist_id})

\* Lines 335-345: the loop over reversed(history).  left is what remains of
\* the reversed history, keys the widget keys created so far in this run.
\* st.button raises when the key exists already; the pressed button sets the
\* search mode and reruns the script at once.
RECURSIVE Sidebar(_, _, _, _)
Sidebar(ss, left, keys, ev) ==
    IF left = <<>>
    THEN [ss |-> ss, sidebar |-> keys, raised |-> NoRaise, rerun |-> FALSE]
    ELSE LET hist_id == Head(left)
             title == movies[RowOfId(hist_id)].title
         IN IF \E k \in 1..Len(keys) : keys[k] = hist_id
            THEN [ss |-> ss, sidebar |-> keys,
                  raised |-> "DuplicateWidgetID at line 342", rerun |-> FALSE]
            ELSE IF ev.kind = "hist" /\ ev.key = hist_id
                 THEN [ss |-> [ss EXCEPT !.mode = "search",
                                         !.selected_movie = title],
                       sidebar |-> Append(keys, hist_id),
                       raised |-> NoRaise, rerun |-> TRUE]
                 ELSE Sidebar(ss, Tail(left), Append(keys, hist_id), ev)

Reverse(s) == [k \in 1..Len(s) |-> s[Len(s) + 1 - k]]

\* What a run leaves: the session state, the page, and whether it ended in
\* st.experimental_rerun().
Finish(side, movie_id, index) ==
    [ss |-> side.ss, rerun |-> side.rerun,
     page |-> [shown |-> movie_id, ranked |-> index, raised |-> side.raised,
               sidebar |-> side.sidebar]]

\* Lines 316-345: with the recommendations in hand, the sidebar; an exception
\* in recommend ends the run before the sidebar is drawn.
Recommended(ss, movie_id, recommendations, ev) ==
    IF recommendations.raised # NoRaise
    THEN [ss |-> ss, rerun |-> FALSE,
          page |-> [shown |-> movie_id, ranked |-> 0,
                    raised |-> recommendations.raised, sidebar |-> <<>>]]
    ELSE Finish(Sidebar(ss, Reverse(ss.history), <<>>, ev),
                movie_id, recommendations.index)

\* Lines 266-316: update_history(movie_id), then recommend(movie_title).
Details(ss, shown, ev, api) ==
    Recommended([ss EXCEPT !.history = update_history(@, shown.movie_id)],
                shown.movie_id, recommend(shown.movie_title, api), ev)

\* Line 254: the detail section is skipped while no mode is set.
Sections(ss, ev, api) ==
    IF ss.mode = NoMode
    THEN Finish(Sidebar(ss, Reverse(ss.history), <<>>, ev), 0, 0)
    ELSE Details(ss, Shown(ss), ev, api)

Run(ss, ev, api) == Sections(Buttons(ss, ev, api), ev, api)

\* st.experimental_rerun(): the script runs again, no button pressed.
Again(first, api) ==
    IF first.rerun THEN Run(first.ss, Event("none", NoTitle, 0, 0), api) ELSE first

Interaction(ss, ev, api) == Again(Run(ss, ev, api), api)

SessionState ==
    [history |-> history, mode |-> mode, selected_movie |-> selected_movie,
     random_movie |-> random_movie]

\* The state after the run(s) out.
Rendered(out) ==
    /\ history' = out.ss.history
    /\ mode' = out.ss.mode
    /\ selected_movie' = out.ss.selected_movie
    /\ random_movie' = out.ss.random_movie
    /\ page' = out.page

SessionModes == {"up", "down500"}

ClickShow ==
    /\ pc' = "rendered"
    /\ \E i \in 1..Len(movies), api \in SessionModes :
        /\ tmdb' = api
        /\ \E out \in {Interaction(SessionState,
                                   Event("show", movies[i].title, 0, 0), api)} :
            Rendered(out)
    /\ UNCHANGED <<movies, similarity, arg, ret, inputs>>

ClickRandom ==
    /\ pc' = "rendered"
    /\ \E row \in 1..Len(movies), api \in SessionModes :
        /\ tmdb' = api
        /\ \E out \in {Interaction(SessionState,
                                   Event("random", NoTitle, row, 0), api)} :
            Rendered(out)
    /\ UNCHANGED <<movies, similarity, arg, ret, inputs>>

\* Only a button the last run drew can be pressed.
ClickHistory ==
    /\ pc' = "rendered"
    /\ \E k \in 1..Len(page.sidebar), api \in SessionModes :
        /\ tmdb' = api
        /\ \E out \in {Interaction(SessionState,
                                   Event("hist", NoTitle, 0, page.sidebar[k]),
                                   api)} :
            Rendered(out)
    /\ UNCHANGED <<movies, similarity, arg, ret, inputs>>

\* Any other widget interaction (the selectbox) reruns the script.
Rerun ==
    /\ pc' = "rendered"
    /\ \E api \in SessionModes :
        /\ tmdb' = api
        /\ \E out \in {Interaction(SessionState,
                                   Event("none", NoTitle, 0, 0), api)} :
            Rendered(out)
    /\ UNCHANGED <<movies, similarity, arg, ret, inputs>>

InitSession == LoadAligned(MaxSessN) /\ CallInit /\ SessionInit

NextSession == ClickShow \/ ClickRandom \/ ClickHistory \/ Rerun

SpecSession == InitSession /\ [][NextSession]_vars

(***************************************************************************)
(* Properties.                                                             *)
(***************************************************************************)
Returned == pc = "returned"
Valid == \E i \in 1..Len(movies) : movies[i].title = arg
ReturnedOk == Returned /\ ret.raised = NoRaise

\* Score, in the query's matrix row, of the candidate ranked at position p.
ScoreAt(p) == similarity[ret.index][ret.distances[p][1]]

\* C1: recommend never returns an entry whose title is the query title.
C1_QueryNeverRecommended ==
    ReturnedOk =>
        \A k \in 1..Len(ret.recommendations) : ret.recommendations[k].title # arg

\* C2: for a valid query title recommend returns exactly
\* min(5, catalog_size - 1) entries.
C2_LengthIsMinFiveSizeMinusOne ==
    (Returned /\ Valid) =>
        /\ ret.raised = NoRaise
        /\ Len(ret.recommendations) =
              IF Len(movies) - 1 < 5 THEN Len(movies) - 1 ELSE 5

C2_Witness ==
    /\ ReturnedOk
    /\ Len(movies) >= 7
    /\ Len(ret.recommendations) = 5

\* C3: the returned entries are the candidates ranked 2nd to 6th, in
\* non-increasing order of their score in the query's row, and each scores at
\* least as much as every candidate that is neither returned nor ranked first.
C3_DescendingScores ==
    ReturnedOk =>
        LET n == Len(ret.recommendations) IN
        /\ Len(ret.distances) = Len(movies)
        /\ {ret.distances[p][1] : p \in 1..Len(movies)} = 1..Len(movies)
        /\ \A p \in 1..Len(movies) : ret.distances[p][2] = ScoreAt(p)
        /\ \A k \in 1..n :
              ret.recommendations[k].title = movies[ret.distances[k + 1][1]].title
        /\ \A k \in 1..(n - 1) : ScoreAt(k + 1) >= ScoreAt(k + 2)
        /\ \A k \in 1..n : \A p \in (n + 2)..Len(movies) : ScoreAt(k + 1) >= ScoreAt(p)

C3_Witness ==
    /\ ReturnedOk
    /\ Len(movies) >= 7
    /\ \E k \in 1..4 : ScoreAt(k + 1) > ScoreAt(k + 2)

\* C4: of two candidates with the same score in the query's row, the one
\* with the smaller row index is ranked before the other.
C4_StableTies ==
    ReturnedOk =>
        /\ \A p, q \in 1..Len(ret.distances) :
              (p < q /\ ScoreAt(p) = ScoreAt(q))
                  => ret.distances[p][1] < ret.distances[q][1]
        /\ \A k \in 1..Len(ret.recommendations) :
              ret.recommendations[k].title = movies[ret.distances[k + 1][1]].title

\* Row 1 queried, rows 2 and 3 tied below it: returned in that order.
C4_Witness ==
    /\ ReturnedOk
    /\ Len(ret.recommendations) >= 2
    /\ ret.index = 1
    /\ similarity[1][2] = similarity[1][3]
    /\ similarity[1][2] < similarity[1][1]
    /\ ret.recommendations[1].title = movies[2].title
    /\ ret.recommendations[2].title = movies[3].title

\* C5: recommend raises exactly when the title matches no catalog row (and
\* then returns nothing); otherwise it uses the first matching row.
C5_RaisesIffNoMatch ==
    Returned =>
        /\ (ret.raised # NoRaise) <=> ~Valid
        /\ ret.raised # NoRaise => ret.recommendations = <<>> /\ ret.index = 0
        /\ ret.raised = NoRaise =>
              /\ movies[ret.index].title = arg
              /\ \A i \in 1..(ret.index - 1) : movies[i].title # arg

\* A title carried by two rows, the first of them not row 1.
C5_Witness ==
    /\ ReturnedOk
    /\ ret.index > 1
    /\ \E i \in (ret.index + 1)..Len(movies) : movies[i].title = arg

\* The consecutive repeats of a sequence collapsed.
RECURSIVE Collapse(_)
Collapse(s) ==
    IF Len(s) <= 1 THEN s
    ELSE LET c == Collapse(SubSeq(s, 1, Len(s) - 1)) IN
         IF c[Len(c)] = s[Len(s)] THEN c ELSE Append(c, s[Len(s)])

LastFive(s) == IF Len(s) <= 5 THEN s ELSE SubSeq(s, Len(s) - 4, Len(s))

\* C6: from the empty history, the history is the last 5 elements of the
\* sequence of recorded ids with consecutive repeats collapsed.
C6_HistoryIsLastFiveCollapsed ==
    /\ history = LastFive(Collapse(inputs))
    /\ Len(history) <= 5

\* Six distinct ids recorded: the five most recent remain.
C6_Witness ==
    /\ Len(inputs) = 6
    /\ \A i, j \in 1..6 : i # j => inputs[i] # inputs[j]
    /\ history = SubSeq(inputs, 2, 6)

SameTitles(a, b) ==
    /\ Len(a) = Len(b)
    /\ \A k \in 1..Len(a) : a[k].title = b[k].title

\* C7: when every metadata request fails, fetch_poster and fetch_trailer
\* return None without raising, and recommend returns the titles, in the
\* order and number it returns with a healthy API, with poster and trailer
\* None; whatever the API does, no entry is dropped or moved.
C7_EnrichmentFailureKeepsRanking ==
    (Returned /\ Valid) =>
        /\ ret.raised = NoRaise
        /\ SameTitles(ret.recommendations, recommend(arg, "up").recommendations)
        /\ tmdb \in AllFailModes =>
              /\ \A k \in 1..Len(ret.recommendations) :
                    /\ ret.recommendations[k].poster = None
                    /\ ret.recommendations[k].trailer = None
              /\ \A i \in 1..Len(movies) :
                    /\ fetch_poster(movies[i].movie_id, tmdb) =
                          [raised |-> FALSE, value |-> None]
                    /\ fetch_trailer(movies[i].movie_id, tmdb) =
                          [raised |-> FALSE, value |-> None]

C7_Witness ==
    /\ ReturnedOk
    /\ tmdb = "down500"
    /\ Len(ret.recommendations) = 5
    /\ \A k \in 1..5 : ret.recommendations[k].poster = None
    /\ recommend(arg, "up").recommendations[1].poster # None

\* C8: no recommend call returns a list computed from a catalog and a matrix
\* of different sizes.
C8_MismatchNeverServed ==
    ReturnedOk => Dim(similarity) = Len(movies)

\* C9: no movie id occurs twice in the session history.
C9_HistoryIdsDistinct ==
    \A i, j \in 1..Len(history) : i # j => history[i] # history[j]

\* C10: in a run with a mode set, the row whose movie_id is recorded in the
\* history and shown in the detail panel is the row recommend ranks.
C10_ShownRowIsRankedRow ==
    (pc = "rendered" /\ mode # NoMode /\ page.ranked # 0) =>
        /\ history[Len(history)] = page.shown
        /\ movies[page.ranked].movie_id = page.shown

====
